---- MODULE Spec2Model ----
(***************************************************************************)
(* TurtleDreams / PlantDreams: the hash-to-grammar compiler                *)
(* (pushdown_parser, rectify_transition, bytes_to_nibbles), the caller     *)
(* produce_system_from_string and the L-system engine (LSystem).           *)
(* Strings are sequences of one-character strings; a dict is a function.   *)
(***************************************************************************)
EXTENDS Integers, Sequences, FiniteSets, TLC

VARIABLES
    session,              \* which scenario drives the calls: "single", "batch",
                          \* "lengths" or "slices"
    calls,                \* number of produce_system_from_string calls so far
    pc,                   \* position of the program
    FLOWERS_ONLY_AT_TIP,  \* module global, set once from --tipflowers
    digest,               \* argument of pushdown_parser (sequence of bytes)
    use_full_parser,      \* argument of produce_system_from_string
    num_of_chars, flower_color, rule_nibbles, empty_stack_transitions,
    nonempty_transitions, stack, rules, idx, state, rule, i, seed,
                          \* locals of pushdown_parser
    returned,             \* log of the (rules, seed, color) tuples returned so far
    lsys,                 \* the LSystem object
    gen,                  \* number of get_next_state calls on lsys
    file,                 \* the plant file: [readable, damage, text]
    loaded,               \* what plant_from_file returned
    drawn,                \* outcome of draw_state on the current state
    t_inst,               \* TurtleDreams: the list object inst of create_instructions
    t_args,               \* TurtleDreams: args.scale and args.depth
    t_frames              \* TurtleDreams: the draw_recurse calls in progress, outermost first

vars == <<session, calls, pc, FLOWERS_ONLY_AT_TIP, digest, use_full_parser,
          num_of_chars, flower_color, rule_nibbles, empty_stack_transitions,
          nonempty_transitions, stack, rules, idx, state, rule, i, seed,
          returned, lsys, gen, file, loaded, drawn, t_inst, t_args, t_frames>>

\* the state of TurtleDreams
turtle == <<t_inst, t_args, t_frames>>

\* the plant file and what was read from it
plant_io == <<file, loaded>>

parser_locals == <<num_of_chars, flower_color, rule_nibbles, empty_stack_transitions,
                   nonempty_transitions, stack, rules, idx, state, rule, i, seed>>

\* the locals of pushdown_parser that are assigned once, before the loop
parser_setup == <<num_of_chars, flower_color, rule_nibbles, empty_stack_transitions,
                  nonempty_transitions>>

(***************************************************************************)
(* Bounds of the model                                                     *)
(***************************************************************************)
MaxStride == 1      \* body bytes of a sample digest advance by 0..MaxStride
MaxCalls == 3       \* compilations in a row in the "batch" scenario
MaxGen == 2         \* get_next_state calls on one LSystem
MaxStateLen == 24   \* get_next_state is only followed on states this short
MaxDepth == 2       \* largest --depth given to TurtleDreams

(***************************************************************************)
(* Program constants                                                       *)
(***************************************************************************)
RULE_CHARS == <<"A","B","C","D","E","F","G">>
START_CHAR == "."
STOP_CHAR == "~"
RULE_SIZE_MAX == 15

empty_stack_transitions_6op ==
    ("." :> <<"A","B","C","D","E","F","G","A","B","[","[","[","[","D","F","G">>) @@
    ("A" :> <<"A","B","C","D","E","F","G","[","[","[","[","[","@","~","+","[">>) @@
    ("B" :> <<"A","B","C","D","E","F","G","[","[","[","[","[","@","~","[","-">>) @@
    ("C" :> <<"A","B","C","D","E","F","G","[","[","[","[","[","@","~","+","[">>) @@
    ("D" :> <<"A","B","C","D","E","F","G","[","[","[","[","[","@","~","[","-">>) @@
    ("E" :> <<"A","B","C","D","E","F","G","[","[","[","[","[","@","~","+","[">>) @@
    ("F" :> <<"A","B","C","D","E","F","G","[","[","[","[","[","@","~","[","-">>) @@
    ("G" :> <<"A","B","C","D","E","F","G","[","[","[","[","[","@","~","+","[">>) @@
    ("+" :> <<"A","B","C","D","E","F","G","+","A","[","+","D","@","~","+","[">>) @@
    ("-" :> <<"A","B","C","D","E","F","G","B","-","[","C","-","@","~","[","-">>) @@
    ("]" :> <<"A","B","C","D","[","[","[","@","@","[","E","F","@","~","G","[">>) @@
    ("@" :> <<"A","B","C","D","E","F","G","[","[","[","E","F","G","~","+","-">>)

nonempty_transitions_6op ==
    ("A" :> <<"A","B","C","D","E","F","G","+","-","[","]","A","@","~","]","-">>) @@
    ("B" :> <<"A","B","C","D","E","-","G","+","-","[","]","B","@","~","+","]">>) @@
    ("C" :> <<"A","B","C","D","+","F","G","+","-","[","]","C","@","~","[","-">>) @@
    ("D" :> <<"A","B","C","-","E","F","G","+","-","[","]","D","@","~","+","]">>) @@
    ("E" :> <<"A","B","+","D","E","F","G","+","-","[","]","E","@","~","[","-">>) @@
    ("F" :> <<"A","-","C","D","E","F","G","+","-","[","]","F","@","~","+","]">>) @@
    ("G" :> <<"+","B","C","D","E","F","G","+","-","[","]","G","@","~","]","-">>) @@
    ("+" :> <<"A","B","C","D","E","F","G","+","A","[","B","D","@","E","+","F">>) @@
    ("-" :> <<"A","B","C","D","E","F","G","B","-","[","C","D","@","F","G","-">>) @@
    ("[" :> <<"+","-","+","-","+","-","C","+","-","[","+","-","+","-","+","-">>) @@
    ("]" :> <<"A","B","C","D","[","[","[","]","-","[","+","-","@","~","[","]">>) @@
    ("@" :> <<"A","B","]","]","]","]","G","+","-","[","+","-","-","~","+","-">>)

empty_stack_transitions_full ==
    ("." :> <<"A","B","C","D","E","F","G","A","B","[","[","[","[","D","F","G">>) @@
    ("A" :> <<"A","B","C","D","E","F","G","[","[","[","[","[","@","~","&",")">>) @@
    ("B" :> <<"A","B","C","D","E","F","G","[","[","[","[","[","@","~","(","&">>) @@
    ("C" :> <<"A","B","C","D","E","F","G","[","[","[","[","[","@","~","&",")">>) @@
    ("D" :> <<"A","B","C","D","E","F","G","[","[","[","[","[","@","~","(","&">>) @@
    ("E" :> <<"A","B","C","D","E","F","G","[","[","[","[","[","@","~","&",")">>) @@
    ("F" :> <<"A","B","C","D","E","F","G","[","[","[","[","[","@","~","(","&">>) @@
    ("G" :> <<"A","B","C","D","E","F","G","[","[","[","[","[","@","~","&",")">>) @@
    ("+" :> <<"A","B","C","D","E","F","G","+","A","[","+","[","@","~","(","&">>) @@
    ("-" :> <<"A","B","C","D","E","F","G","B","-","[","C","[","@","~","&",")">>) @@
    ("]" :> <<"A","B","C","D","[","[","[","@","@","[","E","[","@","~","(","&">>) @@
    ("@" :> <<"A","B","C","D","E","F","G","[","[","[","E","[","G","~","&",")">>) @@
    ("&" :> <<"A","B","C","D","E","F","G","+","-","[","[","-","@","~","(",")">>) @@
    ("(" :> <<"A","B","C","D","E","F","G","+","-","[","[","&","@","~","(","@">>) @@
    (")" :> <<"A","B","C","D","E","F","G","+","-","[","[","&","@","~","@",")">>)

nonempty_transitions_full ==
    ("A" :> <<"A","B","C","D","E","F","G","+","-","[","]","&","@","~","(",")">>) @@
    ("B" :> <<"A","B","C","D","E","-","G","+","-","[","]","&","@","~","(",")">>) @@
    ("C" :> <<"A","B","C","D","+","F","G","+","-","[","]","&","@","~","(",")">>) @@
    ("D" :> <<"A","B","C","-","E","F","G","+","-","[","]","&","@","~","(",")">>) @@
    ("E" :> <<"A","B","+","D","E","F","G","+","-","[","]","&","@","~","(",")">>) @@
    ("F" :> <<"A","-","C","D","E","F","G","+","-","[","]","&","@","~","(",")">>) @@
    ("G" :> <<"+","B","C","D","E","F","G","+","-","[","]","&","@","~","(",")">>) @@
    ("+" :> <<"A","B","C","D","E","F","G","+","A","[","B","&","@","E","+","F">>) @@
    ("-" :> <<"A","B","C","D","E","F","G","B","-","[","C","&","@","F","G","-">>) @@
    ("[" :> <<"+","-","+","-","+","-","C","+","-","[","+","-","+","-","+","-">>) @@
    ("]" :> <<"A","B","C","D","[","[","[","]","-","[","+","&","@","~","[","]">>) @@
    ("@" :> <<"A","B","]","]","]","]","G","+","-","[","+","&","-","~","+","-">>) @@
    ("&" :> <<"A","B","C","D","E","F","G","+","-","[","[","+","@","~","(",")">>) @@
    ("(" :> <<"A","B","C","D","E","F","G","+","-","[","[","&","@","~","(","E">>) @@
    (")" :> <<"A","B","C","D","E","F","G","+","-","[","[","&","@","~","F",")">>)

COLORS ==
    <<"#A846A0", "#7D4FFF", "#8A71CE", "#FF7FED",
      "#FFB766", "#FFD800", "#FFE14F", "#FF7A28",
      "#5EF1FF", "#FFECEA", "#FF877C", "#7C87FF",
      "#FF5E5E", "#FCFF54", "#DACCFF", "#8EC8FF",
      "#FFFFFF", "#FF99A1", "#FF3DAE", "#D756FF",
      "#FF757E", "#758EFF", "#9F4CFF", "#87FFFD",
      "#3D91FF", "#2172FF", "#FF26CC", "#FF7FEB",
      "#EE9EFF", "#FFC587", "#F9D8FF", "#FFF2CE">>

(***************************************************************************)
(* Python helpers: slices, membership, str.index, repetition               *)
(***************************************************************************)
Min(a, b) == IF a < b THEN a ELSE b

\* s[lo:hi] for 0 <= lo, 0 <= hi (indices clipped to the length, as Python does)
Slice(s, lo, hi) == SubSeq(s, lo + 1, Min(hi, Len(s)))

\* c in s
InStr(c, s) == \E p \in 1..Len(s) : s[p] = c

\* s.index(c), 0-based, for c in s
IndexOf(c, s) == CHOOSE p \in 0..(Len(s) - 1) : s[p + 1] = c /\ \A q \in 1..p : s[q] # c

\* c * n (the empty string when n <= 0)
Repeat_one_short(c, n) == [p \in 1..(n - 1) |-> c]

Repeat(c, n) == [p \in 1..n |-> c]

\* the dict d after d[k] = v
DictSet(d, k, v) == [x \in DOMAIN d \cup {k} |-> IF x = k THEN v ELSE d[x]]

EmptyDict == [x \in {} |-> <<>>]

(***************************************************************************)
(* bytes_to_nibbles: two nibbles per byte, high nibble first               *)
(***************************************************************************)
bytes_to_nibbles_low_first(in_bytes) ==
    [p \in 1..(2 * Len(in_bytes)) |->
        IF p % 2 = 1 THEN in_bytes[(p + 1) \div 2] % 16
                     ELSE (in_bytes[p \div 2] \div 16) % 16]

bytes_to_nibbles(in_bytes) ==
    [p \in 1..(2 * Len(in_bytes)) |->
        IF p % 2 = 1 THEN (in_bytes[(p + 1) \div 2] \div 16) % 16
                     ELSE in_bytes[p \div 2] % 16]

(***************************************************************************)
(* rectify_transition: letters that are not available are replaced by the  *)
(* available letter at RULE_CHARS.index(char) % len(available_chars)       *)
(***************************************************************************)
rectify_char_clamped(char, available_chars) ==
    IF InStr(char, RULE_CHARS) /\ ~InStr(char, available_chars)
    THEN available_chars[Len(available_chars)]
    ELSE char

rectify_char(char, available_chars) ==
    IF InStr(char, RULE_CHARS) /\ ~InStr(char, available_chars)
    THEN available_chars[(IndexOf(char, RULE_CHARS) % Len(available_chars)) + 1]
    ELSE char

rectify_transition(tran, available_chars) ==
    [key \in DOMAIN tran |->
        [p \in 1..Len(tran[key]) |-> rectify_char(tran[key][p], available_chars)]]

(***************************************************************************)
(* The header byte: lines 160-166 of pushdown_parser                       *)
(***************************************************************************)
decode_num_of_chars_off_by_one(first) ==
    LET raw == (first \div 32) % 8
    IN  IF raw <= 2 THEN raw + 2 ELSE raw

decode_num_of_chars(first) ==
    LET raw == (first \div 32) % 8
    IN  IF raw < 2 THEN raw + 2 ELSE raw

decode_color_index(first) == first % 32

(***************************************************************************)
(* Values of pushdown_parser that are fixed once the header is decoded     *)
(***************************************************************************)
partition_size_rounded_up == (58 + num_of_chars - 1) \div num_of_chars

\* line 172
partition_size == 58 \div num_of_chars

available_chars == Slice(RULE_CHARS, 0, num_of_chars)

raw_empty_table_with_stop(full) ==
    [(IF full THEN empty_stack_transitions_full ELSE empty_stack_transitions_6op)
        EXCEPT !["."] = [@ EXCEPT ![8] = STOP_CHAR]]

\* the tables handed over by produce_system_from_string (lines 354-357)
raw_empty_table(full) ==
    IF full THEN empty_stack_transitions_full ELSE empty_stack_transitions_6op

raw_nonempty_table_mixed(full) == nonempty_transitions_full

raw_nonempty_table(full) ==
    IF full THEN nonempty_transitions_full ELSE nonempty_transitions_6op

seed_of(d, avail, n) ==
    LET seed_nibbles == bytes_to_nibbles(Slice(d, 30, Len(d)))
    IN  [p \in 1..Len(seed_nibbles) |-> avail[(seed_nibbles[p] % n) + 1]]

(***************************************************************************)
(* LSystem                                                                 *)
(***************************************************************************)
LSystemInit(mapping, sd, scale, color) ==
    [mapping |-> mapping, seed |-> sd, state |-> sd, scale |-> scale, color |-> color]

NoSystem == LSystemInit(EmptyDict, <<>>, 1, "")

RECURSIVE next_state_from_dropping(_, _, _, _)
next_state_from_dropping(st, mapping, p, nstate) ==
    IF p > Len(st) THEN nstate
    ELSE next_state_from_dropping(st, mapping, p + 1,
            IF st[p] \in DOMAIN mapping THEN nstate \o mapping[st[p]]
                                        ELSE nstate)

\* the loop of get_next_state over the characters of the state, from position p
RECURSIVE next_state_from(_, _, _, _)
next_state_from(st, mapping, p, nstate) ==
    IF p > Len(st) THEN nstate
    ELSE next_state_from(st, mapping, p + 1,
            IF st[p] \in DOMAIN mapping THEN nstate \o mapping[st[p]]
                                        ELSE Append(nstate, st[p]))

get_next_state(st, mapping) == next_state_from(st, mapping, 1, <<>>)

(***************************************************************************)
(* LSystem.draw_state, lines 108-139: the saved states are kept as         *)
(* (swap_const, turning_modifier); heading and position belong to the      *)
(* turtle.  error is the IndexError of stack.pop() on an empty stack.      *)
(***************************************************************************)
ANGLE_INCREMENT == 4

NotDrawn == [done |-> FALSE, error |-> FALSE, stack |-> <<>>]

\* lines 113-139: the body of the loop for one character; an IndexError ends the loop
draw_step(char, s) ==
    IF s.error THEN s
    ELSE IF char = "[" THEN
        [s EXCEPT !.stack = Append(@, [swap_const |-> s.swap_const,
                                       turning_modifier |-> s.turning_modifier])]
    ELSE IF char = "]" THEN
        IF Len(s.stack) = 0
        THEN [s EXCEPT !.error = TRUE]
        ELSE [s EXCEPT !.stack = SubSeq(@, 1, Len(@) - 1),
                       !.swap_const = s.stack[Len(s.stack)].swap_const,
                       !.turning_modifier = s.stack[Len(s.stack)].turning_modifier]
    ELSE IF char = "&" THEN [s EXCEPT !.swap_const = 0 - @]
    ELSE IF char = "(" THEN [s EXCEPT !.turning_modifier = @ - ANGLE_INCREMENT]
    ELSE IF char = ")" THEN [s EXCEPT !.turning_modifier = @ + ANGLE_INCREMENT]
    ELSE s

\* line 112: the loop over the characters lo..hi of the state, taken in order
RECURSIVE draw_from(_, _, _, _)
draw_from(st, lo, hi, s) ==
    IF lo > hi THEN s
    ELSE IF lo = hi THEN draw_step(st[lo], s)
    ELSE LET mid == (lo + hi) \div 2
             first_half == draw_from(st, lo, mid, s)
         IN  IF first_half.error THEN first_half
             ELSE draw_from(st, mid + 1, hi, first_half)

draw_state(st) ==
    LET s == draw_from(st, 1, Len(st),
                       [error |-> FALSE, stack |-> <<>>, swap_const |-> 1, turning_modifier |-> 0])
    IN  [done |-> TRUE, error |-> s.error, stack |-> s.stack]

(***************************************************************************)
(* The plant file.  Its text is a sequence of characters; a color is       *)
(* written as one token (it holds no blank, colon or dot).                 *)
(***************************************************************************)
NoFile == [readable |-> FALSE, damage |-> "none", text |-> <<>>]

NoneResult == [ok |-> FALSE, rules |-> EmptyDict, seed |-> <<>>, color |-> <<>>]

\* the keys of a mapping in the order they were inserted
key_order(mapping) ==
    SelectSeq(<<"A","B","C","D","E","F","G","@">>, LAMBDA k : k \in DOMAIN mapping)

\* lines 237-238: one "key : rule" line per key
RECURSIVE rule_lines(_, _, _)
rule_lines(keys, mapping, p) ==
    IF p > Len(keys) THEN <<>>
    ELSE <<keys[p], " ", ":", " ">> \o mapping[keys[p]] \o <<"\n">>
         \o rule_lines(keys, mapping, p + 1)

\* lines 236-241: what plant_to_file writes
plant_to_file(l) ==
    rule_lines(key_order(l.mapping), l.mapping, 1)
    \o <<"\n">> \o l.seed \o <<"\n">> \o <<l.color>>

\* a file that lost one of its parts
malformed_text(l, kind) ==
    LET rule_part == rule_lines(key_order(l.mapping), l.mapping, 1)
    IN  CASE kind = "no_separator" -> rule_part \o l.seed \o <<"\n">> \o <<l.color>>
          [] kind = "no_seed" -> rule_part \o <<"\n">> \o <<l.color>>
          [] kind = "no_color" -> rule_part \o <<"\n">> \o l.seed \o <<"\n">>
          [] kind = "rules_only" -> rule_part
          [] kind = "unreadable" -> plant_to_file(l)

Whitespace == {" ", "\n"}

\* str.strip() without the leading blanks
strip_right_only(s) ==
    IF \A p \in 1..Len(s) : s[p] \in Whitespace THEN <<>>
    ELSE SubSeq(s, 1, CHOOSE q \in 1..Len(s) :
                          s[q] \notin Whitespace /\ \A r \in (q + 1)..Len(s) : s[r] \in Whitespace)

\* str.strip()
strip(s) ==
    IF \A p \in 1..Len(s) : s[p] \in Whitespace THEN <<>>
    ELSE SubSeq(s,
                CHOOSE q \in 1..Len(s) :
                    s[q] \notin Whitespace /\ \A r \in 1..(q - 1) : s[r] \in Whitespace,
                CHOOSE q \in 1..Len(s) :
                    s[q] \notin Whitespace /\ \A r \in (q + 1)..Len(s) : s[r] \in Whitespace)

\* index of the last character of the line that starts at pos (its "\n", or the end)
line_end(text, pos) ==
    IF \E q \in pos..Len(text) : text[q] = "\n"
    THEN CHOOSE q \in pos..Len(text) : text[q] = "\n" /\ \A r \in pos..(q - 1) : text[r] # "\n"
    ELSE Len(text)

\* f.readline() at position pos: the empty string at the end of the file
readline(text, pos) == SubSeq(text, pos, line_end(text, pos))

\* s.split(":"): the fields of s, separated by colons
RECURSIVE split_colon(_, _, _)
split_colon(s, p, field) ==
    IF p > Len(s) THEN <<field>>
    ELSE IF s[p] = ":" THEN <<field>> \o split_colon(s, p + 1, <<>>)
    ELSE split_colon(s, p + 1, Append(field, s[p]))

\* s.replace(".", "")
remove_dots(s) == SelectSeq(s, LAMBDA c : c # ".")

\* lines 248-253: the loop over the rule lines; ok is FALSE when l[1] raises
RECURSIVE read_rules(_, _, _)
read_rules(text, pos, rs) ==
    LET line == strip(readline(text, pos))
        l == split_colon(line, 1, <<>>)
        next == line_end(text, pos) + 1
    IN  IF line = <<>> THEN [ok |-> TRUE, rules |-> rs, pos |-> next]
        ELSE IF Len(l) < 2 THEN [ok |-> FALSE, rules |-> rs, pos |-> next]
        ELSE read_rules(text, next, DictSet(rs, strip(l[1]), remove_dots(strip(l[2]))))

\* lines 245-260
plant_from_file(f) ==
    IF ~f.readable THEN NoneResult
    ELSE LET r == read_rules(f.text, 1, EmptyDict)
             after_seed == line_end(f.text, r.pos) + 1
         IN  IF ~r.ok THEN NoneResult
             ELSE [ok |-> TRUE, rules |-> r.rules,
                   seed |-> strip(readline(f.text, r.pos)),
                   color |-> strip(readline(f.text, after_seed))]

(***************************************************************************)
(* Inputs                                                                  *)
(***************************************************************************)
\* a 32-byte digest: header byte b0, then bytes base, base+step, base+2*step, ...
SampleDigest(b0, base, step) ==
    [k \in 1..32 |-> IF k = 1 THEN b0 ELSE (base + (k - 2) * step) % 256]

\* every header byte over one body; every body byte pattern over each symbol count
SingleDigests ==
    {SampleDigest(b0, 144, 1) : b0 \in 0..255}
    \cup {SampleDigest(32 * (2 + ((base + step) % 6)) + 5, base, step) :
            base \in 0..255, step \in 0..MaxStride}

\* a few digests of different symbol counts, for compilations in a row
BatchDigests ==
    {SampleDigest(32 * h + 3, base, 1) : h \in {0, 7}, base \in {144, 157}}

\* d cut or padded to n bytes
Resized(d, n) == [k \in 1..n |-> IF k <= Len(d) THEN d[k] ELSE (d[1] + k) % 256]

\* byte strings that are not digests: pushdown_parser called with other lengths
WrongLengths == {0, 1, 20, 31, 33, 40}

LengthDigests ==
    {Resized(SampleDigest(32 * h + 9, base, 1), n) :
        h \in {2, 5, 7}, base \in {16, 144, 157, 208}, n \in WrongLengths \cup {32}}

\* digests that differ from one another in one byte: <<position, amount added>>
Perturbations == {<<1, 1>>, <<3, 77>>, <<9, 1>>, <<9, 16>>, <<13, 77>>, <<30, 77>>, <<32, 77>>}

SliceDigests ==
    LET base(h) == SampleDigest(32 * h + 3, 144, 1)
    IN  {base(h) : h \in {2, 7}}
        \cup {[base(h) EXCEPT ![pt[1]] = (@ + pt[2]) % 256] : h \in {2, 7}, pt \in Perturbations}

Digests(s) ==
    CASE s = "single" -> SingleDigests
      [] s = "batch" -> BatchDigests
      [] s = "lengths" -> LengthDigests
      [] s = "slices" -> SliceDigests
      [] s = "turtle" -> {SampleDigest(163, 144, 1)}

\* TurtleDreams digests: the opcodes (even offsets) step through the opcode ranges
TurtleSample(base) ==
    [k \in 1..32 |-> IF k % 2 = 1 THEN (base + ((k - 1) \div 2) * 13) % 256
                                  ELSE (k * 29) % 256]

\* digests with 0, 1, 2 and 3 recursive instructions
TurtleDigests(s) ==
    IF s = "turtle" THEN {TurtleSample(base) : base \in {0, 10, 20, 33}}
                    ELSE {TurtleSample(10)}

\* --depth, any integer
TurtleDepths(s) == IF s = "turtle" THEN (0 - 3)..MaxDepth ELSE {0}

\* --scale, any integer
TurtleScales(s) == IF s = "turtle" THEN {0, 1, 2} ELSE {1}

CallLimit(s) ==
    CASE s = "batch" -> MaxCalls
      [] s = "slices" -> 2
      [] OTHER -> 1

\* L-systems built by hand or read from a plant file (main, lines 373-375)
FileSystems ==
    { [mapping |-> ("A" :> <<"A","B">>) @@ ("B" :> <<"A">>), seed |-> <<"A","B">>, color |-> "#FFFFFF"],
      [mapping |-> ("A" :> <<"A","B">>) @@ ("B" :> <<"A">>), seed |-> <<"+","[","@","]","X">>, color |-> "#FFFFFF"],
      [mapping |-> ("A" :> <<"A","[","+","B","]","A">>) @@ ("B" :> <<>>) @@ ("@" :> <<>>),
       seed |-> <<"B","A","@","-">>, color |-> "#FF5E5E"],
      [mapping |-> EmptyDict, seed |-> <<"A","B","A">>, color |-> "#FFD800"] }

(***************************************************************************)
(* Initial state                                                           *)
(***************************************************************************)
InitCommon ==
    /\ calls = 0
    /\ pc = "idle"
    /\ FLOWERS_ONLY_AT_TIP \in BOOLEAN
    /\ digest = <<>>
    /\ use_full_parser = FALSE
    /\ num_of_chars = 0 /\ flower_color = "" /\ rule_nibbles = <<>>
    /\ empty_stack_transitions = EmptyDict /\ nonempty_transitions = EmptyDict
    /\ stack = 0 /\ rules = EmptyDict
    /\ idx = 0 /\ state = START_CHAR /\ rule = <<>> /\ i = 0 /\ seed = <<>>
    /\ returned = <<>>
    /\ lsys = NoSystem
    /\ gen = 0
    /\ file = NoFile
    /\ loaded = NoneResult
    /\ drawn = NotDrawn
    /\ t_inst = <<>>
    /\ t_args = [scale |-> 1, depth |-> 0]
    /\ t_frames = <<>>

Init == session = "single" /\ InitCommon

InitBatch == session = "batch" /\ InitCommon

InitLengths == session = "lengths" /\ InitCommon

InitSlices == session = "slices" /\ InitCommon

InitTurtle == session = "turtle" /\ InitCommon

(***************************************************************************)
(* line 181: rules = {} is a fresh dict on every call                      *)
(***************************************************************************)
new_rules_shared == rules

new_rules == EmptyDict

(***************************************************************************)
(* produce_system_from_string, up to and into pushdown_parser (lines       *)
(* 278-357, 160-181): hash, pick the tables, decode the header             *)
(***************************************************************************)
ProduceSystemFromString(d, full) ==
    /\ calls' = calls + 1
    /\ digest' = d
    /\ use_full_parser' = full
    /\ IF Len(d) = 0
       THEN /\ pc' = "fault"
            /\ UNCHANGED parser_locals
       ELSE /\ num_of_chars' = decode_num_of_chars(d[1])
            /\ flower_color' = COLORS[decode_color_index(d[1]) + 1]
            /\ rule_nibbles' = bytes_to_nibbles(Slice(d, 1, 30))
            /\ empty_stack_transitions' =
                    rectify_transition(raw_empty_table(full), Slice(RULE_CHARS, 0, num_of_chars'))
            /\ nonempty_transitions' =
                    rectify_transition(raw_nonempty_table(full), Slice(RULE_CHARS, 0, num_of_chars'))
            /\ stack' = 0
            /\ rules' = new_rules
            /\ idx' = 0
            /\ pc' = "letter"
            /\ UNCHANGED <<state, rule, i, seed>>
    /\ lsys' = NoSystem
    /\ gen' = 0
    /\ drawn' = NotDrawn
    /\ UNCHANGED <<turtle, session, FLOWERS_ONLY_AT_TIP, returned, plant_io>>

LetterStart_state_kept ==
    /\ pc = "letter"
    /\ IF idx < Len(available_chars)
       THEN /\ state' = state
            /\ rule' = <<>>
            /\ i' = 0
            /\ pc' = "iter"
       ELSE /\ pc' = "seed"
            /\ UNCHANGED <<state, rule, i>>
    /\ UNCHANGED <<turtle, session, calls, FLOWERS_ONLY_AT_TIP, digest, use_full_parser,
                   parser_setup, stack, rules, idx, seed, returned, lsys, gen,
                   plant_io, drawn>>

\* lines 182-184: next letter of available_chars, or leave the loop
LetterStart ==
    /\ pc = "letter"
    /\ IF idx < Len(available_chars)
       THEN /\ state' = START_CHAR
            /\ rule' = <<>>
            /\ i' = 0
            /\ pc' = "iter"
       ELSE /\ pc' = "seed"
            /\ UNCHANGED <<state, rule, i>>
    /\ UNCHANGED <<turtle, session, calls, FLOWERS_ONLY_AT_TIP, digest, use_full_parser,
                   parser_setup, stack, rules, idx, seed, returned, lsys, gen,
                   plant_io, drawn>>

\* the table consulted at line 187-190
active_table == IF stack = 0 THEN empty_stack_transitions ELSE nonempty_transitions

\* the lookups of lines 186-190 succeed (no IndexError, no KeyError)
lookup_ok ==
    /\ idx * partition_size + i < Len(rule_nibbles)
    /\ state \in DOMAIN active_table
    /\ rule_nibbles[idx * partition_size + i + 1] < Len(active_table[state])

current_nibble == rule_nibbles[idx * partition_size + i + 1]

next_char == active_table[state][current_nibble + 1]

stack_after_push_only(ch, s) == IF ch = "[" THEN s + 1 ELSE s

\* lines 192-195
stack_after(ch, s) ==
    IF ch = "[" THEN s + 1
    ELSE IF ch = "]" THEN s - 1
    ELSE s

Iterate_stop_appended ==
    /\ pc = "iter"
    /\ IF i < Min(RULE_SIZE_MAX, partition_size)
       THEN IF ~lookup_ok
            THEN /\ pc' = "fault"
                 /\ UNCHANGED <<stack, rule, state, i>>
            ELSE /\ stack' = stack_after(next_char, stack)
                 /\ rule' = Append(rule, next_char)
                 /\ state' = next_char
                 /\ i' = i + 1
                 /\ pc' = (IF next_char = STOP_CHAR THEN "pop" ELSE "iter")
       ELSE /\ pc' = "pop"
            /\ UNCHANGED <<stack, rule, state, i>>
    /\ UNCHANGED <<turtle, session, calls, FLOWERS_ONLY_AT_TIP, digest, use_full_parser,
                   parser_setup, rules, idx, seed, returned, lsys, gen, plant_io, drawn>>

\* lines 185-201: one iteration of the inner loop
Iterate ==
    /\ pc = "iter"
    /\ IF i < Min(RULE_SIZE_MAX, partition_size)
       THEN IF ~lookup_ok
            THEN /\ pc' = "fault"
                 /\ UNCHANGED <<stack, rule, state, i>>
            ELSE /\ stack' = stack_after(next_char, stack)
                 /\ IF next_char = STOP_CHAR
                    THEN /\ pc' = "pop"
                         /\ UNCHANGED <<rule, state, i>>
                    ELSE /\ rule' = Append(rule, next_char)
                         /\ state' = next_char
                         /\ i' = i + 1
                         /\ pc' = "iter"
       ELSE /\ pc' = "pop"
            /\ UNCHANGED <<stack, rule, state, i>>
    /\ UNCHANGED <<turtle, session, calls, FLOWERS_ONLY_AT_TIP, digest, use_full_parser,
                   parser_setup, rules, idx, seed, returned, lsys, gen, plant_io, drawn>>

\* lines 203-205: pop the rest of the stack, store the rule
LetterEnd ==
    /\ pc = "pop"
    /\ rule' = rule \o Repeat("]", stack)
    /\ rules' = DictSet(rules, available_chars[idx + 1], rule')
    /\ stack' = 0
    /\ idx' = idx + 1
    /\ pc' = "letter"
    /\ UNCHANGED <<turtle, session, calls, FLOWERS_ONLY_AT_TIP, digest, use_full_parser,
                   parser_setup, state, i, seed, returned, lsys, gen, plant_io, drawn>>

\* lines 207-211: the seed, and the return of (rules, seed, flower_color)
ParserReturn ==
    /\ pc = "seed"
    /\ seed' = seed_of(digest, available_chars, num_of_chars)
    /\ returned' = Append(returned,
            [digest |-> digest, full |-> use_full_parser,
             rules |-> rules, seed |-> seed', color |-> flower_color])
    /\ pc' = "ret"
    /\ UNCHANGED <<turtle, session, calls, FLOWERS_ONLY_AT_TIP, digest, use_full_parser,
                   parser_setup, stack, rules, idx, state, rule, i, lsys, gen,
                   plant_io, drawn>>

\* lines 359-366: the tip-only override and the LSystem
final_rules_always(rs, tip) == DictSet(rs, "@", <<>>)

final_rules_never(rs, tip) == rs

final_rules(rs, tip) == IF tip THEN DictSet(rs, "@", <<>>) ELSE rs

MakeSystem ==
    /\ pc = "ret"
    /\ rules' = final_rules(rules, FLOWERS_ONLY_AT_TIP)
    /\ lsys' = LSystemInit(rules', seed, 1, flower_color)
    /\ gen' = 0
    /\ pc' = "ready"
    /\ UNCHANGED <<turtle, session, calls, FLOWERS_ONLY_AT_TIP, digest, use_full_parser,
                   parser_setup, stack, idx, state, rule, i, seed, returned,
                   plant_io, drawn>>

\* main, lines 373-375: an LSystem from a mapping and a seed that were read
LoadSystem(f) ==
    /\ pc = "idle"
    /\ calls = 0
    /\ lsys' = LSystemInit(f.mapping, f.seed, 1, f.color)
    /\ gen' = 0
    /\ pc' = "ready"
    /\ calls' = CallLimit(session)
    /\ UNCHANGED <<turtle, session, FLOWERS_ONLY_AT_TIP, digest, use_full_parser,
                   parser_locals, returned, plant_io, drawn>>

\* LSystem.get_next_state, lines 95-106
GetNextState ==
    /\ pc = "ready"
    /\ gen < MaxGen
    /\ Len(lsys.state) <= MaxStateLen
    /\ lsys' = [lsys EXCEPT !.state = get_next_state(lsys.state, lsys.mapping)]
    /\ gen' = gen + 1
    /\ drawn' = NotDrawn
    /\ UNCHANGED <<turtle, session, calls, pc, FLOWERS_ONLY_AT_TIP, digest, use_full_parser,
                   parser_locals, returned, plant_io>>

\* LSystem.draw_state, lines 108-139 (called by main and by reset_and_advance)
DrawState ==
    /\ pc = "ready"
    /\ ~drawn.done
    /\ drawn' = draw_state(lsys.state)
    /\ UNCHANGED <<turtle, session, calls, pc, FLOWERS_ONLY_AT_TIP, digest, use_full_parser,
                   parser_locals, returned, lsys, gen, plant_io>>

\* main, lines 381-382: the new LSystem is written to the plant file
PlantToFile ==
    /\ pc = "ready"
    /\ gen = 0
    /\ ~drawn.done
    /\ file' = [readable |-> TRUE, damage |-> "none", text |-> plant_to_file(lsys)]
    /\ pc' = "dumped"
    /\ UNCHANGED <<turtle, session, calls, FLOWERS_ONLY_AT_TIP, digest, use_full_parser,
                   parser_locals, returned, lsys, gen, loaded, drawn>>

\* the file loses a part, or becomes unreadable, before it is read again
MalformedFile(kind) ==
    /\ pc = "dumped"
    /\ file.damage = "none"
    /\ file' = [readable |-> kind # "unreadable", damage |-> kind,
                text |-> malformed_text(lsys, kind)]
    /\ UNCHANGED <<turtle, session, calls, pc, FLOWERS_ONLY_AT_TIP, digest, use_full_parser,
                   parser_locals, returned, lsys, gen, loaded, drawn>>

\* main, line 374: plant_from_file on the plant file
PlantFromFile ==
    /\ pc = "dumped"
    /\ loaded' = plant_from_file(file)
    /\ pc' = "read"
    /\ UNCHANGED <<turtle, session, calls, FLOWERS_ONLY_AT_TIP, digest, use_full_parser,
                   parser_locals, returned, lsys, gen, file, drawn>>

\* main, lines 376-379: the input text is hashed to some digest and compiled
(***************************************************************************)
(* TurtleDreams.py.  A recursive instruction holds a reference to the list *)
(* object inst, written "inst" and read through t_inst; heading, position  *)
(* and color belong to the turtle.                                         *)
(***************************************************************************)
\* create_instructions, lines 73-91: the instruction of one pair of bytes
instruction(opcode, operand) ==
    IF opcode < 70 THEN [fn |-> "fd", ops |-> <<operand>>]
    ELSE IF opcode < 100 THEN [fn |-> "rt", ops |-> <<operand>>]
    ELSE IF opcode < 140 THEN [fn |-> "lt", ops |-> <<operand>>]
    ELSE IF opcode < 155 THEN [fn |-> "circle", ops |-> <<operand>>]
    ELSE IF opcode < 170 THEN [fn |-> "square_spiral", ops |-> <<operand>>]
    ELSE IF opcode < 200 THEN [fn |-> "change_color", ops |-> <<operand>>]
    ELSE [fn |-> "draw_recurse", ops |-> <<"inst", (operand % 4) + 1>>]

\* create_instructions, lines 65-93, for a digest of even length
create_instructions(d) ==
    [k \in 1..(Len(d) \div 2) |-> instruction(d[2 * k - 1], d[2 * k])]

nested_depth_unchanged(depth) == depth

\* line 55: the depth argument of the nested call
nested_depth(depth) == depth - 1

\* main, lines 130-131: inst = create_instructions(digest); draw_recurse(inst, scale, depth)
TurtleMain(d, scale, depth) ==
    /\ pc = "idle"
    /\ calls = 0
    /\ t_inst' = create_instructions(d)
    /\ t_args' = [scale |-> scale, depth |-> depth]
    /\ t_frames' = <<[scale |-> scale, depth |-> depth, at |-> 0]>>
    /\ pc' = "t_run"
    /\ UNCHANGED <<session, calls, FLOWERS_ONLY_AT_TIP, digest, use_full_parser,
                   parser_locals, returned, lsys, gen, plant_io, drawn>>

\* the innermost draw_recurse call
top_frame == t_frames[Len(t_frames)]

\* lines 48 and 51: the call goes on with the instruction after position at
in_loop == top_frame.depth >= 0 /\ top_frame.at < Len(t_inst)

\* lines 59-61: an instruction that is not recursive; a scale of 0 is a ZeroDivisionError
Execute ==
    /\ pc = "t_run"
    /\ in_loop
    /\ t_inst[top_frame.at + 1].fn # "draw_recurse"
    /\ IF top_frame.scale = 0
       THEN /\ pc' = "t_fault"
            /\ UNCHANGED t_frames
       ELSE /\ t_frames' = [t_frames EXCEPT ![Len(t_frames)].at = @ + 1]
            /\ UNCHANGED pc
    /\ UNCHANGED <<t_inst, t_args, session, calls, FLOWERS_ONLY_AT_TIP, digest,
                   use_full_parser, parser_locals, returned, lsys, gen, plant_io, drawn>>

\* lines 52-55: a recursive instruction calls draw_recurse on the list it refers to
DrawRecurseCall ==
    /\ pc = "t_run"
    /\ in_loop
    /\ t_inst[top_frame.at + 1].fn = "draw_recurse"
    /\ t_frames' = Append(t_frames,
                          [scale |-> t_inst[top_frame.at + 1].ops[2] * top_frame.scale,
                           depth |-> nested_depth(top_frame.depth),
                           at |-> 0])
    /\ UNCHANGED <<pc, t_inst, t_args, session, calls, FLOWERS_ONLY_AT_TIP, digest,
                   use_full_parser, parser_locals, returned, lsys, gen, plant_io, drawn>>

\* lines 48-49 and 63: the call returns; lines 56-58: its caller goes on with the loop
DrawRecurseReturn ==
    /\ pc = "t_run"
    /\ ~in_loop
    /\ IF Len(t_frames) = 1
       THEN /\ t_frames' = <<>>
            /\ pc' = "t_done"
       ELSE /\ t_frames' = [SubSeq(t_frames, 1, Len(t_frames) - 1)
                               EXCEPT ![Len(t_frames) - 1].at = @ + 1]
            /\ UNCHANGED pc
    /\ UNCHANGED <<t_inst, t_args, session, calls, FLOWERS_ONLY_AT_TIP, digest,
                   use_full_parser, parser_locals, returned, lsys, gen, plant_io, drawn>>

Compile ==
    /\ pc \in {"idle", "ready"}
    /\ calls < CallLimit(session)
    /\ \E d \in Digests(session), full \in BOOLEAN : ProduceSystemFromString(d, full)

Next ==
    \/ Compile
    \/ LetterStart
    \/ Iterate
    \/ LetterEnd
    \/ ParserReturn
    \/ MakeSystem
    \/ \E f \in FileSystems : LoadSystem(f)
    \/ GetNextState
    \/ DrawState
    \/ PlantToFile
    \/ \E kind \in {"no_separator", "no_seed", "no_color", "rules_only", "unreadable"} :
            MalformedFile(kind)
    \/ PlantFromFile
    \/ \E d \in TurtleDigests(session), scale \in TurtleScales(session),
             depth \in TurtleDepths(session) : TurtleMain(d, scale, depth)
    \/ Execute
    \/ DrawRecurseCall
    \/ DrawRecurseReturn

Spec == Init /\ [][Next]_vars

SpecBatch == InitBatch /\ [][Next]_vars

SpecLengths == InitLengths /\ [][Next]_vars

SpecSlices == InitSlices /\ [][Next]_vars

\* a step of draw_recurse
DrawRecurse == Execute \/ DrawRecurseCall \/ DrawRecurseReturn

\* one thread runs draw_recurse: a step that can be taken is taken
SpecTurtle == InitTurtle /\ [][Next]_vars /\ WF_vars(DrawRecurse)

(***************************************************************************)
(* Vocabulary of the properties                                            *)
(***************************************************************************)
TurnOps == {"+", "-", "&", "(", ")"}

Operators == {"+", "-", "[", "]", "@", "&", "(", ")"}

\* the letters in use for a symbol count n
InUse(n) == {RULE_CHARS[p] : p \in 1..n}

Count(s, c) == Cardinality({p \in 1..Len(s) : s[p] = c})

\* as many "[" as "]", and no prefix with more "]" than "["
WellNested(s) ==
    /\ Count(s, "[") = Count(s, "]")
    /\ \A k \in 1..Len(s) : Count(SubSeq(s, 1, k), "]") <= Count(SubSeq(s, 1, k), "[")

\* the brackets still open at the end of s
OpenDepth(s) == Count(s, "[") - Count(s, "]")

\* the state holds an L-system built by produce_system_from_string
Produced == pc = "ready" /\ Len(digest) > 0

(***************************************************************************)
(* C1: every rule returned by pushdown_parser is bracket-balanced and well *)
(* nested; while a rule is compiled stack_depth is never negative and is   *)
(* the number of brackets still open in the rule, so the pops appended at  *)
(* the end of the loop are exactly the outstanding ones.                   *)
(***************************************************************************)
C1_BalancedRules ==
    /\ stack >= 0
    /\ pc \in {"iter", "pop"} =>
          /\ OpenDepth(rule) = stack
          /\ \A k \in 1..Len(rule) :
                Count(SubSeq(rule, 1, k), "]") <= Count(SubSeq(rule, 1, k), "[")
    /\ pc = "letter" /\ idx > 0 =>
          /\ rules[RULE_CHARS[idx]] = rule
          /\ WellNested(rule)
          /\ Len(rule) >= i
          /\ \A p \in (i + 1)..Len(rule) : rule[p] = "]"
    /\ pc = "ret" => \A c \in InUse(num_of_chars) : WellNested(rules[c])

\* a compilation has returned and its last rule needed pops to be appended
C1_Witness ==
    /\ pc = "ret"
    /\ Len(rule) > i
    /\ \E c \in DOMAIN rules : Count(rules[c], "[") >= 2

(***************************************************************************)
(* C2: every rule returned by pushdown_parser, appended pops included, has *)
(* length at most RULE_SIZE_MAX.                                           *)
(***************************************************************************)
C2_RuleLengthAtMostMax ==
    pc = "ret" => \A c \in InUse(num_of_chars) : Len(rules[c]) <= RULE_SIZE_MAX

(***************************************************************************)
(* C3: compilation of a 32-byte digest never fails: the table selected by  *)
(* stack emptiness has a row of 16 entries for the current state, every    *)
(* nibble index read is within 0..57, at most min(15, 58 div symbol_count) *)
(* nibbles are read per letter, and a grammar with one rule per letter in  *)
(* use is returned.  The rectified tables are closed: whatever entry is    *)
(* read next, the table then selected has a row for it.                    *)
(***************************************************************************)
TablesClosed ==
    /\ START_CHAR \in DOMAIN empty_stack_transitions
    /\ \A k \in DOMAIN empty_stack_transitions :
          /\ Len(empty_stack_transitions[k]) = 16
          /\ \A p \in 1..16 :
                LET ch == empty_stack_transitions[k][p]
                IN  /\ ch # "]"
                    /\ ch = STOP_CHAR
                       \/ (ch = "[" /\ ch \in DOMAIN nonempty_transitions)
                       \/ (ch # "[" /\ ch \in DOMAIN empty_stack_transitions)
    /\ \A k \in DOMAIN nonempty_transitions :
          /\ Len(nonempty_transitions[k]) = 16
          /\ \A p \in 1..16 :
                LET ch == nonempty_transitions[k][p]
                IN  \/ ch = STOP_CHAR
                    \/ /\ ch \in DOMAIN nonempty_transitions
                       /\ ch = "]" => ch \in DOMAIN empty_stack_transitions

C3_NoFailure ==
    /\ pc # "fault"
    /\ pc \notin {"idle", "fault"} /\ Len(digest) = 32 =>
          /\ num_of_chars \in 2..7
          /\ Len(rule_nibbles) = 58
          /\ idx <= num_of_chars
    /\ pc = "letter" /\ idx = 0 => TablesClosed
    /\ pc = "iter" =>
          /\ i <= Min(15, 58 \div num_of_chars)
          /\ i < Min(15, 58 \div num_of_chars) =>
                /\ idx * (58 \div num_of_chars) + i \in 0..57
                /\ state \in DOMAIN active_table
                /\ Len(active_table[state]) = 16
                /\ current_nibble \in 0..15
    /\ pc = "ret" => DOMAIN rules = InUse(num_of_chars)

\* the last letter of a 7-letter grammar has read its last nibble, index 55
C3_Witness ==
    /\ pc = "iter"
    /\ num_of_chars = 7
    /\ idx = 6
    /\ i = 8
    /\ stack > 0

(***************************************************************************)
(* C4: symbol_count is the top 3 bits of byte 0, plus 2 when they are      *)
(* below 2, so it lies in 2..7; color_index is the low 5 bits, in 0..31,   *)
(* and the color is that entry of the 32-entry palette.                    *)
(***************************************************************************)
C4_HeaderFields ==
    pc \notin {"idle", "fault"} /\ Len(digest) > 0 =>
        /\ Len(COLORS) = 32
        /\ num_of_chars \in 2..7
        /\ \E top \in 0..7, color_index \in 0..31 :
              /\ digest[1] = 32 * top + color_index
              /\ num_of_chars = (IF top >= 2 THEN top ELSE top + 2)
              /\ flower_color = COLORS[color_index + 1]

\* header byte 63: raw count 1 folds to 3, color index 31 is the last entry
C4_Witness ==
    /\ pc = "ret"
    /\ digest[1] = 63
    /\ num_of_chars = 3
    /\ flower_color = "#FFF2CE"

(***************************************************************************)
(* C5: rectify_transition keeps the rows and the row lengths; an entry     *)
(* naming a letter outside the first n letters becomes the letter at       *)
(* (ordinal mod n), every other entry is unchanged, and no entry of the    *)
(* result names a letter outside the in-use alphabet.                      *)
(***************************************************************************)
RectifiedFrom(rect, raw, n) ==
    /\ DOMAIN rect = DOMAIN raw
    /\ \A k \in DOMAIN raw :
          /\ Len(rect[k]) = Len(raw[k])
          /\ \A p \in 1..Len(raw[k]) :
                /\ \A o \in 0..6 :
                      raw[k][p] = RULE_CHARS[o + 1] =>
                          rect[k][p] = (IF o >= n THEN RULE_CHARS[(o % n) + 1] ELSE raw[k][p])
                /\ (\A o \in 0..6 : raw[k][p] # RULE_CHARS[o + 1]) => rect[k][p] = raw[k][p]
                /\ \A o \in n..6 : rect[k][p] # RULE_CHARS[o + 1]

C5_Rectified ==
    pc = "letter" /\ idx = 0 =>
        /\ RectifiedFrom(empty_stack_transitions,
                         IF use_full_parser THEN empty_stack_transitions_full
                                            ELSE empty_stack_transitions_6op,
                         num_of_chars)
        /\ RectifiedFrom(nonempty_transitions,
                         IF use_full_parser THEN nonempty_transitions_full
                                            ELSE nonempty_transitions_6op,
                         num_of_chars)

\* two letters in use, full tables: the E of row "(" has become A, the F of row ")" B
C5_Witness ==
    /\ pc = "letter" /\ idx = 0
    /\ num_of_chars = 2
    /\ use_full_parser
    /\ nonempty_transitions_full["("][16] = "E"
    /\ nonempty_transitions["("][16] = "A"
    /\ nonempty_transitions[")"][15] = "B"
    /\ empty_stack_transitions["."][16] = "A"

(***************************************************************************)
(* C6: the seed has length 4; its characters are alphabet[n mod            *)
(* symbol_count] for the nibbles n of bytes 30 and 31, high nibble first;  *)
(* so it holds letters in use only.                                        *)
(***************************************************************************)
C6_Seed ==
    pc \in {"ret", "ready"} /\ Len(digest) = 32 =>
        /\ Len(seed) = 4
        /\ seed[1] = RULE_CHARS[((digest[31] \div 16) % num_of_chars) + 1]
        /\ seed[2] = RULE_CHARS[((digest[31] % 16) % num_of_chars) + 1]
        /\ seed[3] = RULE_CHARS[((digest[32] \div 16) % num_of_chars) + 1]
        /\ seed[4] = RULE_CHARS[((digest[32] % 16) % num_of_chars) + 1]
        /\ \A p \in 1..4 : seed[p] \in InUse(num_of_chars)

\* a seed whose high and low nibbles give different letters
C6_Witness ==
    /\ pc = "ret"
    /\ num_of_chars = 7
    /\ seed[1] # seed[2]
    /\ seed[3] # seed[4]
    /\ (digest[31] \div 16) % 7 # (digest[31] % 16) % 7

(***************************************************************************)
(* C7: every rule of the grammar that produce_system_from_string hands to  *)
(* the L-system is in simplified form: no bracketed span whose interior    *)
(* consists only of turn/swap/angle operators, and no run of such          *)
(* operators immediately before a closing bracket.                         *)
(***************************************************************************)
HasDeadBracket(r) ==
    \E p \in 1..Len(r), q \in 1..Len(r) :
        /\ p + 1 < q
        /\ r[p] = "[" /\ r[q] = "]"
        /\ \A m \in (p + 1)..(q - 1) : r[m] \in TurnOps

HasTurnBeforeClose(r) ==
    \E p \in 1..(Len(r) - 1) : r[p] \in TurnOps /\ r[p + 1] = "]"

Simplified(r) == ~HasDeadBracket(r) /\ ~HasTurnBeforeClose(r)

C7_GrammarSimplified ==
    Produced => \A c \in DOMAIN lsys.mapping : Simplified(lsys.mapping[c])

(***************************************************************************)
(* C8: after k calls of get_next_state the state is generation k of the    *)
(* seed: every character is replaced by its rule, or kept when it has no   *)
(* rule, in order.  A state of unmapped symbols comes back unchanged; with *)
(* A -> AB, B -> A and seed AB generation 1 is ABA and generation 2 is     *)
(* ABAAB.  The mapping and the seed are not modified.                      *)
(***************************************************************************)
\* what one character has grown into after k generations
RECURSIVE Grown(_, _, _)
RECURSIVE GrownAll(_, _, _, _)
Grown(c, mapping, k) ==
    IF k = 0 \/ c \notin DOMAIN mapping THEN <<c>>
    ELSE GrownAll(mapping[c], mapping, k - 1, 1)

GrownAll(str, mapping, k, p) ==
    IF p > Len(str) THEN <<>>
    ELSE Grown(str[p], mapping, k) \o GrownAll(str, mapping, k, p + 1)

Fibonacci == ("A" :> <<"A","B">>) @@ ("B" :> <<"A">>)

C8_Generations ==
    pc = "ready" =>
        /\ lsys.state = GrownAll(lsys.seed, lsys.mapping, gen, 1)
        /\ (\A p \in 1..Len(lsys.seed) : lsys.seed[p] \notin DOMAIN lsys.mapping)
              => lsys.state = lsys.seed
        /\ lsys.mapping = Fibonacci /\ lsys.seed = <<"A","B">> =>
              /\ gen = 1 => lsys.state = <<"A","B","A">>
              /\ gen = 2 => lsys.state = <<"A","B","A","A","B">>
        /\ IF Len(digest) > 0
           THEN lsys.mapping = rules /\ lsys.seed = seed
           ELSE \E f \in FileSystems : lsys.mapping = f.mapping /\ lsys.seed = f.seed

\* the Fibonacci word of generation 2 has been produced
C8_Witness ==
    /\ pc = "ready"
    /\ gen = 2
    /\ lsys.mapping = Fibonacci
    /\ lsys.state = <<"A","B","A","A","B">>

(***************************************************************************)
(* C9 as stated: the mapping of every L-system returned by                 *)
(* produce_system_from_string has an entry for exactly the letters in use, *)
(* so every operator and mark symbol is terminal.                          *)
(***************************************************************************)
C9_OnlyLettersMapped ==
    Produced =>
        /\ DOMAIN lsys.mapping = InUse(num_of_chars)
        /\ \A op \in Operators : get_next_state(<<op>>, lsys.mapping) = <<op>>

(***************************************************************************)
(* C9 as amended: without tip-only flowering the mapping has an entry for  *)
(* exactly the letters in use; with it the mapping has one more entry,     *)
(* "@" with the empty rule.  The operators + - [ ] & ( ) are terminal in   *)
(* both cases, "@" only without tip-only flowering.                        *)
(***************************************************************************)
C9_MappingDomain ==
    Produced =>
        /\ DOMAIN lsys.mapping =
              InUse(num_of_chars) \cup (IF FLOWERS_ONLY_AT_TIP THEN {"@"} ELSE {})
        /\ FLOWERS_ONLY_AT_TIP => lsys.mapping["@"] = <<>>
        /\ \A c \in InUse(num_of_chars) : lsys.mapping[c] = returned[Len(returned)].rules[c]
        /\ \A op \in Operators \ {"@"} : get_next_state(<<op>>, lsys.mapping) = <<op>>
        /\ ~FLOWERS_ONLY_AT_TIP => get_next_state(<<"@">>, lsys.mapping) = <<"@">>

\* a tip-only L-system has been advanced and its state holds operators
C9_Witness ==
    /\ Produced
    /\ FLOWERS_ONLY_AT_TIP
    /\ gen >= 1
    /\ "@" \in DOMAIN lsys.mapping
    /\ Count(lsys.state, "[") > 0
    /\ Count(lsys.state, "+") > 0

(***************************************************************************)
(* C10: compilation carries no state from one call to the next: whenever   *)
(* the same digest and table variant have been compiled more than once,    *)
(* first alone and then after other compilations, the (rules, seed, color) *)
(* returned are the same.                                                  *)
(***************************************************************************)
C10_Deterministic ==
    \A a \in 1..Len(returned), b \in 1..Len(returned) :
        returned[a].digest = returned[b].digest /\ returned[a].full = returned[b].full =>
            /\ returned[a].rules = returned[b].rules
            /\ returned[a].seed = returned[b].seed
            /\ returned[a].color = returned[b].color

\* a digest compiled alone, then another with more letters, then the first again
C10_Witness ==
    /\ Len(returned) = 3
    /\ returned[1].digest = returned[3].digest
    /\ returned[1].full = returned[3].full
    /\ returned[2].digest # returned[1].digest
    /\ DOMAIN returned[2].rules # DOMAIN returned[1].rules
    /\ Cardinality(DOMAIN returned[2].rules) = 7

(***************************************************************************)
(* C11: pushdown_parser called with a digest whose length is not 32 bytes  *)
(* ends in a fault and never returns a (rules, seed, color) result.        *)
(***************************************************************************)
C11_WrongLengthFaults ==
    pc = "ret" => Len(digest) = 32

(***************************************************************************)
(* C12: writing a compiled (grammar, seed, color) with plant_to_file and   *)
(* reading the file back with plant_from_file gives a mapping with the     *)
(* same keys and the same rule per key (empty rules included), the same    *)
(* seed and the same color.                                                *)
(***************************************************************************)
C12_RoundTrip ==
    pc = "read" /\ file.damage = "none" /\ Len(digest) > 0 =>
        /\ loaded.ok
        /\ DOMAIN loaded.rules = {<<k>> : k \in DOMAIN lsys.mapping}
        /\ \A k \in DOMAIN lsys.mapping : loaded.rules[<<k>>] = lsys.mapping[k]
        /\ loaded.seed = lsys.seed
        /\ loaded.color = <<lsys.color>>

\* a tip-only grammar, whose rule for "@" is empty, has been written and read back
C12_Witness ==
    /\ pc = "read" /\ file.damage = "none" /\ Len(digest) > 0
    /\ loaded.ok
    /\ <<"@">> \in DOMAIN loaded.rules
    /\ loaded.rules[<<"@">>] = <<>>
    /\ Len(loaded.rules[<<"A">>]) > 4
    /\ Len(loaded.seed) = 4

(***************************************************************************)
(* C13: plant_from_file answers every malformed file (no blank separator   *)
(* line, no seed line, no color line, unreadable) with (None, None, None), *)
(* and never returns a rules mapping with an empty seed or an empty color. *)
(***************************************************************************)
C13_MalformedGivesNone ==
    pc = "read" =>
        /\ file.damage # "none" => ~loaded.ok
        /\ loaded.ok => loaded.seed # <<>> /\ loaded.color # <<>>

(***************************************************************************)
(* The Rule Simplifier (section 4.5 of the specification).                 *)
(* Pass 1 removes bracketed spans whose interior holds turn/swap/angle     *)
(* operators only, until none is left; pass 2 removes every run of such    *)
(* operators that stands immediately before a closing bracket.             *)
(***************************************************************************)
\* position p opens a span "[" operators "]"
DeadSpanAt(r, p) ==
    /\ r[p] = "["
    /\ \E q \in (p + 2)..Len(r) :
          r[q] = "]" /\ \A m \in (p + 1)..(q - 1) : r[m] \in TurnOps

RECURSIVE elide_dead_brackets(_)
elide_dead_brackets(r) ==
    IF \A p \in 1..Len(r) : ~DeadSpanAt(r, p) THEN r
    ELSE LET p == CHOOSE x \in 1..Len(r) :
                      DeadSpanAt(r, x) /\ \A y \in 1..(x - 1) : ~DeadSpanAt(r, y)
             q == CHOOSE x \in (p + 2)..Len(r) :
                      r[x] = "]" /\ \A m \in (p + 1)..(x - 1) : r[m] \in TurnOps
         IN  elide_dead_brackets(SubSeq(r, 1, p - 1) \o SubSeq(r, q + 1, Len(r)))

\* the operator at position p belongs to a run that ends at a closing bracket
BeforeClose(r, p) ==
    /\ r[p] \in TurnOps
    /\ \E q \in (p + 1)..Len(r) :
          r[q] = "]" /\ \A m \in p..(q - 1) : r[m] \in TurnOps

RECURSIVE keep_from(_, _, _)
keep_from(r, p, dropped) ==
    IF p > Len(r) THEN <<>>
    ELSE IF dropped[p] THEN keep_from(r, p + 1, dropped)
    ELSE <<r[p]>> \o keep_from(r, p + 1, dropped)

collapse_last_only(r) ==
    keep_from(r, 1, [p \in 1..Len(r) |-> r[p] \in TurnOps /\ p < Len(r) /\ r[p + 1] = "]"])

collapse_before_close(r) == keep_from(r, 1, [p \in 1..Len(r) |-> BeforeClose(r, p)])

simplify(r) == collapse_before_close(elide_dead_brackets(r))

(***************************************************************************)
(* C14: simplification is idempotent on every rule the compiler produces:  *)
(* simplify(simplify(r)) = simplify(r).                                    *)
(***************************************************************************)
C14_SimplifyIdempotent ==
    pc = "ret" =>
        \A c \in DOMAIN rules :
            /\ simplify(simplify(rules[c])) = simplify(rules[c])
            /\ Simplified(simplify(rules[c]))

\* a compiled rule on which both passes remove something
C14_Witness ==
    /\ pc = "ret"
    /\ \E c \in DOMAIN rules :
          /\ elide_dead_brackets(rules[c]) # rules[c]
          /\ simplify(rules[c]) # elide_dead_brackets(rules[c])
          /\ Len(simplify(rules[c])) > 0

(***************************************************************************)
(* C15 as stated: some nibble maps the start state to the STOP marker in   *)
(* the empty-stack table, so a compiled rule may be the empty string.      *)
(***************************************************************************)
C15_StartCanStop ==
    pc = "letter" /\ idx = 0 =>
        \E n \in 0..15 : empty_stack_transitions[START_CHAR][n + 1] = STOP_CHAR

(***************************************************************************)
(* C15 as amended: no nibble maps the start state to the STOP marker, in   *)
(* either empty-stack table and for every symbol count; the first nibble   *)
(* of a slice always adds a character, so no compiled rule is empty.       *)
(***************************************************************************)
C15_NoEmptyRule ==
    /\ pc = "letter" /\ idx = 0 =>
          \A n \in 0..15 :
              /\ empty_stack_transitions[START_CHAR][n + 1] # STOP_CHAR
              /\ raw_empty_table(use_full_parser)[START_CHAR][n + 1] # STOP_CHAR
    /\ pc = "pop" => i >= 1 /\ Len(rule) >= 1
    /\ pc = "ret" => \A c \in InUse(num_of_chars) : Len(rules[c]) >= 1

\* the shortest rule: STOP arrived with the second nibble
C15_Witness ==
    /\ pc = "ret"
    /\ \E c \in InUse(num_of_chars) : Len(rules[c]) = 1

(***************************************************************************)
(* C16: when a lookup yields the STOP marker the automaton stops at once   *)
(* for that letter: the nibble adds nothing to the rule, no later nibble   *)
(* is read, and the rule is the output so far followed by the outstanding  *)
(* pops; neither "~" nor "." occurs in a compiled rule.                    *)
(***************************************************************************)
StopRead == pc = "iter" /\ i < Min(RULE_SIZE_MAX, partition_size) /\ lookup_ok
            /\ next_char = STOP_CHAR

C16_StopIsImmediate ==
    /\ [][StopRead => pc' = "pop" /\ rule' = rule /\ i' = i /\ stack' = stack]_vars
    /\ [][pc = "pop" =>
            /\ pc' = "letter"
            /\ rule' = rule \o [p \in 1..stack |-> "]"]
            /\ rules'[RULE_CHARS[idx + 1]] = rule'
            /\ i' = i]_vars
    /\ [](\A c \in DOMAIN rules : \A p \in 1..Len(rules[c]) :
              rules[c][p] # STOP_CHAR /\ rules[c][p] # START_CHAR)

\* a letter was stopped before its slice was used up, with brackets still open
C16_Witness ==
    /\ pc = "pop"
    /\ i < Min(RULE_SIZE_MAX, partition_size)
    /\ i >= 2
    /\ stack > 0

(***************************************************************************)
(* C17: the rule of the letter at ordinal idx depends only on the table    *)
(* variant, symbol_count and the nibbles idx*partition_size ..             *)
(* idx*partition_size + min(15, partition_size) - 1 of bytes 1..29: two    *)
(* digests that agree on the top 3 bits of byte 0 and on that slice give   *)
(* the same rule for that letter.  Every letter starts at the start marker *)
(* with stack_depth 0 and an empty rule.                                   *)
(***************************************************************************)
\* nibble k (from 0) of bytes 1..29 of digest d
NibbleAt(d, k) == IF k % 2 = 0 THEN d[2 + (k \div 2)] \div 16 ELSE d[2 + (k \div 2)] % 16

SameSlice(d1, d2, ix, n) ==
    \A j \in 0..(Min(15, 58 \div n) - 1) :
        NibbleAt(d1, ix * (58 \div n) + j) = NibbleAt(d2, ix * (58 \div n) + j)

C17_RuleDependsOnSlice ==
    /\ pc = "iter" /\ i = 0 => state = START_CHAR /\ stack = 0 /\ rule = <<>>
    /\ \A a \in 1..Len(returned), b \in 1..Len(returned) :
          /\ returned[a].full = returned[b].full
          /\ returned[a].digest[1] \div 32 = returned[b].digest[1] \div 32
          => LET n == Cardinality(DOMAIN returned[a].rules)
             IN  \A ix \in 0..(n - 1) :
                    SameSlice(returned[a].digest, returned[b].digest, ix, n) =>
                        returned[a].rules[RULE_CHARS[ix + 1]] = returned[b].rules[RULE_CHARS[ix + 1]]

\* two digests of 7 letters that differ in one slice: that rule differs, the others agree
C17_Witness ==
    /\ Len(returned) = 2
    /\ returned[1].full = returned[2].full
    /\ returned[1].digest # returned[2].digest
    /\ Cardinality(DOMAIN returned[1].rules) = 7
    /\ Cardinality(DOMAIN returned[2].rules) = 7
    /\ returned[1].rules["C"] # returned[2].rules["C"]
    /\ SameSlice(returned[1].digest, returned[2].digest, 1, 7)
    /\ returned[1].rules["B"] = returned[2].rules["B"]

(***************************************************************************)
(* C18: every character of every compiled rule is a letter in use or an    *)
(* operator of the selected variant: + - [ ] @ for the reduced variant,    *)
(* + - [ ] @ & ( ) for the full one.  A rule of the reduced variant never  *)
(* holds &, ( or ).                                                        *)
(***************************************************************************)
ReducedOperators == {"+", "-", "[", "]", "@"}

FullOperators == {"+", "-", "[", "]", "@", "&", "(", ")"}

C18_RuleAlphabet ==
    pc = "ret" /\ Len(digest) = 32 =>
        \A c \in DOMAIN rules : \A p \in 1..Len(rules[c]) :
            rules[c][p] \in InUse(num_of_chars)
                \cup (IF use_full_parser THEN FullOperators ELSE ReducedOperators)

\* a full-variant grammar that uses a letter and each operator the reduced variant lacks
C18_Witness ==
    /\ pc = "ret"
    /\ use_full_parser
    /\ \A o \in {"&", "(", ")", "B"} :
          \E c \in DOMAIN rules : \E p \in 1..Len(rules[c]) : rules[c][p] = o

(***************************************************************************)
(* C19: every generation string of a system made by                        *)
(* produce_system_from_string is bracket-balanced and no prefix holds more *)
(* ']' than '['; draw_state never pops an empty stack and its stack is     *)
(* empty once the string is consumed.                                      *)
(***************************************************************************)
C19_GenerationsBalanced ==
    Produced =>
        /\ WellNested(lsys.state)
        /\ drawn.done => ~drawn.error /\ drawn.stack = <<>>

\* a later generation with branches has been drawn
C19_Witness ==
    /\ Produced
    /\ gen >= 1
    /\ drawn.done
    /\ Count(lsys.state, "[") >= 2

(***************************************************************************)
(* C20: with tip-only flowering the grammar maps '@' to the empty string;  *)
(* get_next_state removes every '@' of the current state, and every '@'    *)
(* of the new state comes from the rule of a letter rewritten in the call. *)
(***************************************************************************)
RECURSIVE MarksFromLetters(_, _, _)
MarksFromLetters(st, mapping, p) ==
    IF p > Len(st) THEN 0
    ELSE (IF st[p] \in InUse(7) /\ st[p] \in DOMAIN mapping
             THEN Count(mapping[st[p]], "@") ELSE 0)
         + MarksFromLetters(st, mapping, p + 1)

TipOnly == Produced /\ FLOWERS_ONLY_AT_TIP

C20_FlowersLastOneGeneration ==
    /\ [](TipOnly => "@" \in DOMAIN lsys.mapping /\ lsys.mapping["@"] = <<>>)
    /\ [][TipOnly /\ gen' = gen + 1 =>
              Count(lsys'.state, "@") = MarksFromLetters(lsys.state, lsys.mapping, 1)]_vars

\* the flowers of generation 1 are gone in generation 2, which has flowers of its own
C20_Witness ==
    /\ TipOnly
    /\ gen = 2
    /\ Count(get_next_state(lsys.seed, lsys.mapping), "@") > 0
    /\ Count(lsys.state, "@") > 0
    /\ Count(lsys.state, "@") =
          MarksFromLetters(get_next_state(lsys.seed, lsys.mapping), lsys.mapping, 1)

(***************************************************************************)
(* C21 as stated: draw_recurse terminates for every instruction list made  *)
(* by create_instructions from a 32-byte digest and every integer depth;   *)
(* each nested call has depth one lower, a call with depth < 0 executes no *)
(* instruction and the nesting of calls never exceeds depth + 2 levels.    *)
(* The calls in progress are the levels of nesting, the outermost call     *)
(* included.                                                               *)
(***************************************************************************)
\* the call at level k has the depth of the outermost call less k - 1
DepthOneLower == \A k \in 1..Len(t_frames) : t_frames[k].depth = t_args.depth - (k - 1)

\* a call with a negative depth has executed no instruction
NothingBelowZero == \A k \in 1..Len(t_frames) : t_frames[k].depth < 0 => t_frames[k].at = 0

C21_NestingAtMostDepthPlusTwo ==
    /\ Len(t_inst) \in {0, 16}
    /\ DepthOneLower
    /\ NothingBelowZero
    /\ pc = "t_run" => Len(t_frames) <= t_args.depth + 2

(***************************************************************************)
(* C21 as amended: as above, but the nesting never exceeds depth + 2       *)
(* levels when depth >= -1 and is the outermost call alone when            *)
(* depth < -1.  Termination is the return of the outermost call or the     *)
(* ZeroDivisionError of a scale of 0.                                      *)
(***************************************************************************)
NestingLimit == IF t_args.depth + 2 > 1 THEN t_args.depth + 2 ELSE 1

C21_DrawRecurseTerminates ==
    /\ [](/\ Len(t_inst) \in {0, 16}
          /\ DepthOneLower
          /\ NothingBelowZero
          /\ Len(t_frames) <= NestingLimit)
    /\ (pc = "t_run") ~> (pc \in {"t_done", "t_fault"})

\* the deepest nesting of the largest depth: the innermost call has depth -1
C21_Witness ==
    /\ pc = "t_run"
    /\ t_args.depth = 2
    /\ Len(t_frames) = 4
    /\ top_frame.depth = 0 - 1
    /\ t_frames[1].at > 0
    /\ \E k \in 1..16 : t_inst[k].fn = "draw_recurse" /\ t_inst[k].ops[1] = "inst"

====
